---- MODULE Spec2Model ----
(***************************************************************************)
(* HouseHelp.AI: the issue lifecycle as driven by the React front end.     *)
(*                                                                         *)
(* The browser holds one IssueDetails page at a time (its state, the state *)
(* of its MaintenanceProviders child, and the HTTP requests it has in      *)
(* flight); the back end (issue store, provider registry, audit log) is    *)
(* reached only through services/api.js.  The repository keeps two         *)
(* generations of the page and of the provider component; which one is     *)
(* deployed is fixed at start-up (pageVariant, mpVariant).                  *)
(***************************************************************************)
EXTENDS Naturals, Integers, Sequences, FiniteSets, Bags, TLC

\* ------------------------------------------------------------------ bounds

\* user operations that send a state-changing request (analyze, update,
\* call-maintenance) in one behaviour
MaxOps == 3

\* the largest issue collection the dashboard is given
MaxIssues == 10

\* the longest list of steps of a repair plan, and the largest step number
MaxSteps == 2

\* ------------------------------------------------------------------ values

\* JavaScript null / undefined / empty string / empty array (all compare equal
\* to the empty sequence here)
None == <<>>

Issues == {1}

\* ------------------------------------------------------------------ text
\* A text is a sequence of one-character strings.

UpperCase == <<"A","B","C","D","E","F","G","H","I","J","K","L","M",
               "N","O","P","Q","R","S","T","U","V","W","X","Y","Z">>

LowerCase == <<"a","b","c","d","e","f","g","h","i","j","k","l","m",
               "n","o","p","q","r","s","t","u","v","w","x","y","z">>

\* String.prototype.toLowerCase, one character
LowerChar(c) ==
  IF \E k \in DOMAIN UpperCase : UpperCase[k] = c
  THEN LowerCase[CHOOSE k \in DOMAIN UpperCase : UpperCase[k] = c]
  ELSE c

\* fault injection: the text is compared as written
KeepCase(s) == s

\* String.prototype.toLowerCase
toLowerCase(s) == [k \in DOMAIN s |-> LowerChar(s[k])]

\* String.prototype.includes
includes(s, w) ==
  \E k \in 0..(Len(s) - Len(w)) : SubSeq(s, k + 1, k + Len(w)) = w

kw_plumb == <<"p","l","u","m","b">>
kw_water == <<"w","a","t","e","r">>
kw_pipe == <<"p","i","p","e">>
kw_leak == <<"l","e","a","k">>
kw_electric == <<"e","l","e","c","t","r","i","c">>
kw_wiring == <<"w","i","r","i","n","g">>
kw_outlet == <<"o","u","t","l","e","t">>
kw_switch == <<"s","w","i","t","c","h">>
kw_appliance == <<"a","p","p","l","i","a","n","c","e">>
kw_washer == <<"w","a","s","h","e","r">>
kw_dryer == <<"d","r","y","e","r">>
kw_refrigerator == <<"r","e","f","r","i","g","e","r","a","t","o","r">>
kw_general == <<"g","e","n","e","r","a","l">>

\* ------------------------------------------------------------------ plans
\* What the analysis service can answer with.  A plan is a record; a property
\* the JSON document does not have is a field the record does not have.

\* obj.field where the value is a text: undefined and null read as None
Text(obj, field) == IF field \in DOMAIN obj THEN obj[field] ELSE None

\* the truthiness of repairPlan.is_diy (undefined is falsy)
IsDiy(repairPlan) == "is_diy" \in DOMAIN repairPlan /\ repairPlan.is_diy

\* a DIY plan, no provider hint
PlanLeak ==
  [diagnosis |-> <<"l","e","a","k">>, is_diy |-> TRUE, recommended_provider |-> None]

\* a professional plan, no provider hint
PlanOutlet ==
  [diagnosis |-> <<"o","u","t","l","e","t">>, is_diy |-> FALSE,
   recommended_provider |-> None]

Plans == {PlanLeak, PlanOutlet}

\* ------------------------------------------------------------------ plan inputs
\* Plans a MaintenanceProviders or FlowchartDisplay component can be handed:
\* every combination of a provider hint, a diagnosis and a DIY flag, each
\* present or absent.

hint_Plumber ==
  <<"P","l","u","m","b","e","r">>

hint_Electrician ==
  <<"E","l","e","c","t","r","i","c","i","a","n">>

hint_Appliance ==
  <<"A","p","p","l","i","a","n","c","e"," ","t","e","c","h","n","i","c",
    "i","a","n">>

hint_General ==
  <<"G","e","n","e","r","a","l"," ","c","o","n","t","r","a","c","t","o",
    "r">>

hint_Handyman ==
  <<"H","a","n","d","y","m","a","n">>

hint_ElectricPlumb ==
  <<"E","L","E","C","T","R","I","C"," ","a","n","d"," ","P","L","U","M",
    "B","i","n","g">>

diag_water ==
  <<"w","a","t","e","r"," ","l","e","a","k","i","n","g"," ","u","n","d",
    "e","r"," ","s","i","n","k">>

diag_pipe_outlet ==
  <<"l","e","a","k","i","n","g"," ","p","i","p","e"," ","a","n","d"," ",
    "e","l","e","c","t","r","i","c","a","l"," ","o","u","t","l","e","t">>

diag_outlet ==
  <<"O","u","t","l","e","t"," ","s","p","a","r","k","s"," ","a","t"," ",
    "t","h","e"," ","s","w","i","t","c","h">>

diag_washer ==
  <<"w","a","s","h","e","r"," ","a","n","d"," ","d","r","y","e","r">>

diag_paint ==
  <<"p","a","i","n","t"," ","i","s"," ","p","e","e","l","i","n","g">>

\* an optional property: << >> when the document does not have it, <<v>> when
\* it has it with value v
Absent == << >>

Present(v) == <<v>>

\* recommended_provider: absent, or a text
Hints ==
  {Absent} \cup {Present(t) : t \in {hint_Plumber, hint_Electrician, hint_Appliance,
                                      hint_General, hint_Handyman, hint_ElectricPlumb}}

\* diagnosis: absent, empty, or a text
Diagnoses ==
  {Absent} \cup {Present(t) : t \in {<< >>, diag_water, diag_pipe_outlet, diag_outlet,
                                      diag_washer, diag_paint}}

\* is_diy: absent, true or false
Flags == {Absent, Present(TRUE), Present(FALSE)}

\* the plan with the given optional properties (and its steps)
PlanOf(hint, diagnosis, is_diy) ==
  LET fields == {"steps"}
                \cup (IF hint = Absent THEN {} ELSE {"recommended_provider"})
                \cup (IF diagnosis = Absent THEN {} ELSE {"diagnosis"})
                \cup (IF is_diy = Absent THEN {} ELSE {"is_diy"})
  IN [f \in fields |->
        IF f = "recommended_provider" THEN hint[1]
        ELSE IF f = "diagnosis" THEN diagnosis[1]
        ELSE IF f = "is_diy" THEN is_diy[1]
        ELSE << [instruction |-> <<"f","i","x">>] >>]

PlanInputs == {PlanOf(h, d, b) : h \in Hints, d \in Diagnoses, b \in Flags}

\* a step of a plan: its own number is absent or one of 0..MaxSteps
StepOf(number) ==
  IF number = Absent THEN [instruction |-> <<"f","i","x">>]
  ELSE [instruction |-> <<"f","i","x">>, step |-> number[1]]

StepInputs == {StepOf(Absent)} \cup {StepOf(Present(n)) : n \in 0..MaxSteps}

\* the lists of up to MaxSteps steps
StepLists == UNION {[1..n -> StepInputs] : n \in 0..MaxSteps}

\* a DIY plan with each of the lists of steps
StepPlans ==
  {[PlanOf(Absent, Present(diag_paint), Present(TRUE)) EXCEPT !.steps = sl] :
      sl \in StepLists}

\* ------------------------------------------------------------------ registry

\* the closed specialty categories, as texts
plumbing == <<"p","l","u","m","b","i","n","g">>
electrical == <<"e","l","e","c","t","r","i","c","a","l">>
appliances == <<"a","p","p","l","i","a","n","c","e","s">>
general == <<"g","e","n","e","r","a","l">>

Categories == {plumbing, electrical, appliances, general}

\* the registry rows of the deployment the issue lifecycle is checked in, in
\* id order
Providers ==
  << [id |-> 1, specialty |-> electrical, availability |-> "available"],
     [id |-> 2, specialty |-> general, availability |-> "unavailable"] >>

\* other registries a deployment can have: no generalist, a plumber and a
\* generalist, nobody at all
Registries ==
  { Providers,
    << [id |-> 1, specialty |-> electrical, availability |-> "available"] >>,
    << [id |-> 1, specialty |-> plumbing, availability |-> "available"],
       [id |-> 2, specialty |-> general, availability |-> "available"] >>,
    << >> }

VARIABLE
  registry           \* the provider registry (never changes)

\* the provider-registry query, GET /api/providers/ with an optional filter
QueryProviders(specialty) ==
  IF specialty = None THEN registry
  ELSE LET Match(p) == p.specialty = specialty IN SelectSeq(registry, Match)

\* ------------------------------------------------------------------ matcher

\* fault injection: without a hint, the electrical keywords are tested first
MatchSpecialtyElectricalFirst(repairPlan) ==
  IF repairPlan # None /\ Text(repairPlan, "recommended_provider") # None
  THEN LET provider == toLowerCase(repairPlan.recommended_provider) IN
       IF includes(provider, kw_plumb) THEN plumbing
       ELSE IF includes(provider, kw_electric) THEN electrical
       ELSE IF includes(provider, kw_appliance) THEN appliances
       ELSE general
  ELSE LET description == IF repairPlan # None /\ Text(repairPlan, "diagnosis") # None
                          THEN toLowerCase(repairPlan.diagnosis) ELSE <<>> IN
       IF includes(description, kw_electric) \/ includes(description, kw_wiring)
          \/ includes(description, kw_outlet) \/ includes(description, kw_switch)
       THEN electrical
       ELSE IF includes(description, kw_plumb) \/ includes(description, kw_water)
               \/ includes(description, kw_pipe) \/ includes(description, kw_leak)
       THEN plumbing
       ELSE IF includes(description, kw_appliance) \/ includes(description, kw_washer)
               \/ includes(description, kw_dryer) \/ includes(description, kw_refrigerator)
       THEN appliances
       ELSE general

\* part_003 loadProviders: the specialty inferred from the repair plan
MatchSpecialty(repairPlan) ==
  IF repairPlan # None /\ Text(repairPlan, "recommended_provider") # None
  THEN LET provider == toLowerCase(repairPlan.recommended_provider) IN
       IF includes(provider, kw_plumb) THEN plumbing
       ELSE IF includes(provider, kw_electric) THEN electrical
       ELSE IF includes(provider, kw_appliance) THEN appliances
       ELSE IF provider = kw_general \/ includes(provider, kw_general) THEN general
       ELSE general
  ELSE LET description == IF repairPlan # None /\ Text(repairPlan, "diagnosis") # None
                          THEN toLowerCase(repairPlan.diagnosis) ELSE <<>> IN
       IF includes(description, kw_plumb) \/ includes(description, kw_water)
          \/ includes(description, kw_pipe) \/ includes(description, kw_leak)
       THEN plumbing
       ELSE IF includes(description, kw_electric) \/ includes(description, kw_wiring)
               \/ includes(description, kw_outlet) \/ includes(description, kw_switch)
       THEN electrical
       ELSE IF includes(description, kw_appliance) \/ includes(description, kw_washer)
               \/ includes(description, kw_dryer) \/ includes(description, kw_refrigerator)
       THEN appliances
       ELSE general

\* MaintenanceProviders.js loadProviders: the filter is the raw hint, if any
RawSpecialty(repairPlan) ==
  IF repairPlan # None /\ Text(repairPlan, "recommended_provider") # None
  THEN repairPlan.recommended_provider
  ELSE None

\* ------------------------------------------------------------------ state

VARIABLES
  \* back end
  store,             \* issue id -> issue record
  audit,             \* the maintenance-contact records, in creation order
  trace,             \* per issue: the statuses it has had, oldest first (history)
  chatCalls,         \* the calls made to the chat service, oldest first (history)
  \* deployment
  pageVariant,       \* "IssueDetails.js" or "part_002"
  mpVariant,         \* "part_003" or "MaintenanceProviders.js"
  \* router
  id,                \* the issue whose page is mounted, 0 on the dashboard
  \* IssueDetails state
  issue, analysis, isAnalyzing, error, isLoading,
  \* MaintenanceProviders state
  providers, selectedProvider, isDialogOpen, mp_isLoading, mp_error, success,
  \* ChatInterface state
  messages, currentMessage, chat_isLoading,
  \* FlowchartDisplay
  fcVariant,         \* "FlowchartDisplay.js" or "part_000"
  mermaidError,
  rendering,         \* what became of the diagram: "none" before the effect ran
  \* Dashboard state
  issues, stats, dash_isLoading, dash_error,
  \* transport
  reqs,              \* bag of HTTP requests in flight
  timers,            \* pending setTimeout callbacks of the mounted page
  nOps               \* state-changing requests sent so far

serverVars == <<store, audit, trace, chatCalls>>
pageVars == <<issue, analysis, isAnalyzing, error, isLoading>>
mpVars == <<providers, selectedProvider, isDialogOpen, mp_isLoading, mp_error, success>>
chatVars == <<messages, currentMessage, chat_isLoading>>
fcVars == <<fcVariant, mermaidError, rendering>>
dashVars == <<issues, stats, dash_isLoading, dash_error>>
vars == <<registry, store, audit, trace, chatCalls, pageVariant, mpVariant, id, issue,
          analysis, isAnalyzing, error, isLoading, providers, selectedProvider,
          isDialogOpen, mp_isLoading, mp_error, success, messages, currentMessage,
          chat_isLoading, fcVariant, mermaidError, rendering, issues, stats, dash_isLoading,
          dash_error, reqs, timers, nOps>>

\* ------------------------------------------------------------------ bags

One(r) == SetToBag({r})

RECURSIVE SumCounts(_, _)
SumCounts(B, S) ==
  IF S = {} THEN 0
  ELSE LET x == CHOOSE y \in S : TRUE IN B[x] + SumCounts(B, S \ {x})

\* the bag of f[r] for r in B, the r with f[r] = None dropped
MapBag(f, B) ==
  LET img == {f[r] : r \in DOMAIN B} \ {None} IN
  [x \in img |-> SumCounts(B, {r \in DOMAIN B : f[r] = x})]

\* ------------------------------------------------------------------ requests

\* a request as sent: awaited by the mounted page (live) and, for the
\* provider component's requests, by the mounted component (mpLive)
Request(kind, issueId, cont) ==
  [kind |-> kind, issueId |-> issueId, cont |-> cont,
   provider_id |-> 0, specialty |-> None, status |-> "", n |-> 0,
   live |-> TRUE, mpLive |-> TRUE, stage |-> "sent", resp |-> None]

\* the operations the issuesAPI object of services/api has
issuesAPI ==
  {"createIssue", "getIssues", "getIssue", "analyzeIssue", "updateIssue", "callMaintenance"}

Ok(data) == [ok |-> TRUE, data |-> data, detail |-> ""]
Err(detail) == [ok |-> FALSE, data |-> None, detail |-> detail]

\* part_005 api: axios timeout 30000 ms, the awaiting call rejects
NetworkError == Err("timeout of 30000ms exceeded")

ReadOnly(r) == r.kind \in {"getIssue", "getProviders", "getIssues"}

\* what is left of request r once nothing awaits it: a query or an answer is
\* dropped, a state-changing request stays with the server
Abandoned(r) ==
  IF ReadOnly(r) \/ r.stage = "replied" THEN None
  ELSE [r EXCEPT !.live = FALSE, !.mpLive = FALSE, !.cont = "none"]

\* fault injection: the continuations of the page that went away still act
KeepRoute(B) == B

\* the mounted route component (page or dashboard) goes away
UnmountRoute(B) ==
  LET f == [r \in DOMAIN B |-> IF r.live THEN Abandoned(r) ELSE r] IN MapBag(f, B)

\* the children of the analysis section (provider component, chat) go away;
\* the call-maintenance continuation still calls onProviderCalled, the chat
\* continuation only sets the state of a component that is gone
UnmountMP(B) ==
  LET f == [r \in DOMAIN B |->
              IF r.kind = "getProviders" /\ r.live THEN None
              ELSE IF r.kind \in {"callMaintenance", "sendMessage"} /\ r.live
              THEN [r EXCEPT !.mpLive = FALSE]
              ELSE r]
  IN MapBag(f, B)

Without(r) == reqs (-) One(r)

\* the server has answered r
Answered(r, resp) ==
  IF r.live
  THEN Without(r) (+) One([r EXCEPT !.stage = "replied", !.resp = resp])
  ELSE Without(r)

Pending(kind) == {r \in BagToSet(reqs) : r.kind = kind /\ r.stage = "sent"}

\* the live requests of a kind, each with the ways its await can settle:
\* the server's answer, or the timeout while the server has not answered
\* (the request then stays with the server, unawaited); a registry query,
\* whose answer is fixed when it is sent, can still be lost on the way
Settled(kind) ==
  {[req |-> r, resp |-> r.resp, rest |-> Without(r)] :
      r \in {q \in BagToSet(reqs) : q.kind = kind /\ q.live /\ q.stage = "replied"}}
  \cup
  {[req |-> r, resp |-> NetworkError,
    rest |-> IF Abandoned(r) = None THEN Without(r)
             ELSE Without(r) (+) One(Abandoned(r))] :
      r \in {q \in BagToSet(reqs) :
                q.kind = kind /\ q.live
                /\ (q.stage = "sent" \/ q.kind = "getProviders")}}

\* ------------------------------------------------------------------ back end
\* The FastAPI back end is not part of the sources; what follows is the
\* behaviour the specification gives it (sections 3, 4.1, 4.3, 4.4).

\* the stored form of a repair plan (a JSON document)
JSON_stringify(plan) == [json |-> plan]

\* JSON.parse
JSON_parse(text) == text.json

\* fault injection: the record is stored without its plan
IssueRecordNoPlan(status, plan) ==
  [status |-> status,
   diagnosis |-> IF plan = None THEN None ELSE Text(plan, "diagnosis"),
   repair_plan |-> None]

\* an issue record of the store
IssueRecord(status, plan) ==
  [status |-> status,
   diagnosis |-> IF plan = None THEN None ELSE Text(plan, "diagnosis"),
   repair_plan |-> IF plan = None THEN None ELSE JSON_stringify(plan)]

\* the stored issues a behaviour may start from
InitialIssues == {IssueRecord("new", None), IssueRecord("in-progress", PlanLeak)}

StoredPlan(i) ==
  IF store[i] = None \/ store[i].repair_plan = None THEN None
  ELSE JSON_parse(store[i].repair_plan)

\* GET /api/issues/{id}
IssueOut(i) == [id |-> i, status |-> store[i].status, diagnosis |-> store[i].diagnosis,
                repair_plan |-> store[i].repair_plan]

\* what the analysis service can do with a request: fail, or answer with a plan
AnalysisErrors == {"AnalysisUnavailable", "MalformedPlan"}

AnalysisOutcomes ==
  {[error |-> e, plan |-> None] : e \in AnalysisErrors}
  \cup {[error |-> "", plan |-> p] : p \in Plans}

\* section 4.3: a successful analysis moves new to analyzed and leaves every
\* later status alone
StatusAfterAnalyze(status) == IF status = "new" THEN "analyzed" ELSE status

\* the history of issue i once its status is status
Logged(i, status) ==
  IF trace[i][Len(trace[i])] = status THEN trace
  ELSE [trace EXCEPT ![i] = Append(@, status)]

Unchanged(resp) == [store |-> store, audit |-> audit, trace |-> trace, resp |-> resp]

\* POST /api/issues/{id}/analyze, the analysis service answering with outcome
AnalyzeEndpoint(i, outcome) ==
  IF store[i] = None THEN Unchanged(Err("NotFound"))
  ELSE IF outcome.error # "" THEN Unchanged(Err(outcome.error))
  ELSE LET status == StatusAfterAnalyze(store[i].status) IN
       [store |-> [store EXCEPT ![i] = IssueRecord(status, outcome.plan)],
        audit |-> audit,
        trace |-> Logged(i, status),
        resp |-> Ok([repair_plan |-> outcome.plan,
                     mermaid_flowchart |-> <<"g","r","a","p","h">>,
                     text_flowchart |-> <<"s","t","e","p","s">>])]

\* PUT /api/issues/{id}
UpdateEndpoint(i, status) ==
  IF store[i] = None THEN Unchanged(Err("NotFound"))
  ELSE [store |-> [store EXCEPT ![i].status = status],
        audit |-> audit,
        trace |-> Logged(i, status),
        resp |-> Ok(None)]

\* fault injection: the provider is not looked up
AnyProviderAvailable(provider_id) == TRUE

ProviderAvailable(provider_id) ==
  \E k \in DOMAIN registry :
     registry[k].id = provider_id /\ registry[k].availability = "available"

\* fault injection: the DIY precondition is not checked
AnyPlanEligible(plan) == plan # None

\* section 4.4 contactProvider: the plan must be a professional one
EligibleForProfessional(plan) == plan # None /\ ~plan.is_diy

\* POST /api/issues/{id}/call-maintenance
\* fault injection: the contact is recorded whatever the status of the issue
CallMaintenanceEndpointAnyStatus(i, provider_id) ==
  IF store[i] = None THEN Unchanged(Err("NotFound"))
  ELSE IF ~EligibleForProfessional(StoredPlan(i))
  THEN Unchanged(Err("NotEligibleForProfessional"))
  ELSE IF ~ProviderAvailable(provider_id) THEN Unchanged(Err("ProviderUnavailable"))
  ELSE [store |-> [store EXCEPT ![i].status = "maintenance_called"],
        audit |-> Append(audit, [issue_id |-> i, provider_id |-> provider_id,
                                 is_diy |-> StoredPlan(i).is_diy]),
        trace |-> Logged(i, "maintenance_called"),
        resp |-> Ok(None)]

CallMaintenanceEndpoint(i, provider_id) ==
  IF store[i] = None THEN Unchanged(Err("NotFound"))
  ELSE IF ~EligibleForProfessional(StoredPlan(i))
  THEN Unchanged(Err("NotEligibleForProfessional"))
  ELSE IF ~ProviderAvailable(provider_id) THEN Unchanged(Err("ProviderUnavailable"))
  ELSE IF store[i].status # "analyzed" THEN Unchanged(Err("InvalidTransition"))
  ELSE [store |-> [store EXCEPT ![i].status = "maintenance_called"],
        audit |-> Append(audit, [issue_id |-> i, provider_id |-> provider_id,
                                 is_diy |-> StoredPlan(i).is_diy]),
        trace |-> Logged(i, "maintenance_called"),
        resp |-> Ok(None)]

clientVars == <<registry, pageVariant, mpVariant, id, issue, analysis, isAnalyzing, error,
                isLoading, providers, selectedProvider, isDialogOpen, mp_isLoading,
                mp_error, success, chatVars, fcVars, issues, stats, dash_isLoading, dash_error,
                timers, nOps>>

Serve(r, res) ==
  /\ store' = res.store
  /\ audit' = res.audit
  /\ trace' = res.trace
  /\ reqs' = Answered(r, res.resp)
  /\ UNCHANGED <<chatCalls, clientVars>>

ServeGetIssue ==
  \E r \in Pending("getIssue") :
     Serve(r, Unchanged(IF store[r.issueId] = None THEN Err("NotFound")
                        ELSE Ok(IssueOut(r.issueId))))

\* the number is the quotient a / b
Quotient(a, b) == [num |-> a, den |-> b]

\* fault injection: contacted issues count as completed
CompletedOrCalled == {"completed", "maintenance_called"}

\* section 4.5: the statuses counted by completedIssues
CompletedStatuses == {"completed"}

\* section 4.5 Dashboard Aggregator, the counts and the completion rate
getStats(collection) ==
  LET Completed(rec) == rec.status \in CompletedStatuses
      total_issues == Len(collection)
      completed_issues == Len(SelectSeq(collection, Completed))
  IN [total_issues |-> total_issues,
      completed_issues |-> completed_issues,
      completion_rate |-> IF total_issues = 0 THEN Quotient(0, 1)
                          ELSE Quotient(completed_issues * 100, total_issues)]

\* GET /api/issues/ and GET /api/dashboard, the two requests of
\* loadData's Promise.all, answered from the same store
ServeGetIssues ==
  \E r \in Pending("getIssues") :
     LET n == Len(store)
         Alive(k) == store[k] # None
         Kept(rec) == rec # None
         Records == SelectSeq(store, Kept)
     IN Serve(r, Unchanged(Ok([issues |-> SelectSeq([k \in 1..n |-> k], Alive),
                               stats |-> getStats(Records)])))

ServeAnalyze ==
  \E r \in Pending("analyzeIssue") : \E outcome \in AnalysisOutcomes :
     Serve(r, AnalyzeEndpoint(r.issueId, outcome))

ServeUpdate ==
  \E r \in Pending("updateIssue") : Serve(r, UpdateEndpoint(r.issueId, r.status))

ServeCallMaintenance ==
  \E r \in Pending("callMaintenance") :
     Serve(r, CallMaintenanceEndpoint(r.issueId, r.provider_id))

\* ------------------------------------------------------------------ rendering

\* an error thrown by an effect is caught by no error boundary: React unmounts
\* the whole tree
Crashed == rendering = "thrown"

\* IssueDetails renders its content (not the spinner, not "Issue not found")
Rendered == id # 0 /\ ~isLoading /\ issue # None /\ ~Crashed

\* the children of the analysis section are mounted
MPMounted == Rendered /\ analysis # None

\* MaintenanceProviders renders its cards and dialog
MPRendered ==
  /\ MPMounted
  /\ analysis.repair_plan # None
  /\ mpVariant = "MaintenanceProviders.js" => ~IsDiy(analysis.repair_plan)

\* one of the three buttons bound to analyzeIssue is shown and enabled
AnalyzeOffered ==
  /\ Rendered
  /\ ~isAnalyzing
  /\ \/ analysis # None
     \/ issue.status = "new"
     \/ /\ pageVariant = "IssueDetails.js"
        /\ issue.status \in {"analyzed", "in-progress", "completed"}

\* fault injection: the button is shown whatever the status
MarkCompletedAlways == Rendered

\* the "Mark as Completed" button is shown
MarkCompletedOffered == Rendered /\ issue.status # "completed"

\* the "Delete Issue" button of the page is shown
DeleteOffered == Rendered /\ pageVariant = "IssueDetails.js"

\* loadProviders: the filter sent to the registry
Specialty(repairPlan) ==
  IF mpVariant = "part_003" THEN MatchSpecialty(repairPlan) ELSE RawSpecialty(repairPlan)

\* api getProviders(specialty); the registry never changes, so the answer is
\* the same whenever the server gets to the query
GetProviders(specialty, cont) ==
  [Request("getProviders", 0, cont) EXCEPT
     !.specialty = specialty, !.stage = "replied",
     !.resp = Ok(QueryProviders(specialty))]

LoadProviders(repairPlan) == GetProviders(Specialty(repairPlan), "first")

MPReset ==
  /\ providers' = None
  /\ selectedProvider' = None
  /\ isDialogOpen' = FALSE
  /\ mp_isLoading' = FALSE
  /\ mp_error' = ""
  /\ success' = ""

\* the first message of a conversation about an issue
Welcome == [type |-> "bot", message |-> "welcome", n |-> 0]

\* the issueContext prop: `Issue: ${issue.description}\nDiagnosis: ${issue.diagnosis}`
\* (the description of an issue never changes)
IssueContext(i) == [description |-> "description", diagnosis |-> i.diagnosis]

\* ChatInterface is not mounted
ChatReset ==
  /\ messages' = None
  /\ currentMessage' = ""
  /\ chat_isLoading' = FALSE

\* ChatInterface mounts: its effect sets the welcome message
ChatMount ==
  /\ messages' = <<Welcome>>
  /\ currentMessage' = ""
  /\ chat_isLoading' = FALSE

\* ChatInterface stays mounted: its effect runs again when issueContext changes
ChatProps ==
  /\ messages' = IF IssueContext(issue') # IssueContext(issue) THEN <<Welcome>>
                 ELSE messages
  /\ UNCHANGED <<currentMessage, chat_isLoading>>

\* MPMounted after a handler of the page (which leaves the route alone)
MPMountedNext == id # 0 /\ ~isLoading' /\ issue' # None /\ analysis' # None

\* The render that follows a handler of the page: base is the bag of requests
\* the handler leaves, planSet says whether it called setAnalysis.  The
\* provider component is unmounted with the analysis section, mounted with it
\* (running loadProviders), and runs loadProviders again when repairPlan changes.
Commit(base, planSet) ==
  IF ~MPMountedNext THEN MPReset /\ ChatReset /\ reqs' = UnmountMP(base)
  ELSE IF ~MPMounted
       THEN /\ MPReset
            /\ ChatMount
            /\ reqs' = UnmountMP(base) (+) One(LoadProviders(analysis'.repair_plan))
       ELSE /\ UNCHANGED mpVars
            /\ ChatProps
            /\ reqs' = IF planSet THEN base (+) One(LoadProviders(analysis'.repair_plan))
                       ELSE base

PageReset ==
  /\ issue' = None
  /\ analysis' = None
  /\ isAnalyzing' = FALSE
  /\ error' = ""
  /\ isLoading' = TRUE

DashReset ==
  /\ issues' = None
  /\ stats' = None
  /\ dash_isLoading' = TRUE
  /\ dash_error' = ""

\* navigate('/'): Dashboard mounts and runs loadData
GoDashboard(base) ==
  /\ id' = 0
  /\ PageReset
  /\ MPReset
  /\ ChatReset
  /\ DashReset
  /\ timers' = 0
  /\ reqs' = UnmountRoute(base) (+) One(Request("getIssues", 0, "loadData"))

Range(f) == {f[k] : k \in DOMAIN f}

staticVars == <<registry, pageVariant, mpVariant, fcVars>>

\* ------------------------------------------------------------------ Dashboard

\* Dashboard loadData, the list answered
loadDataResolved ==
  \E s \in Settled("getIssues") :
     /\ s.resp.ok
     /\ issues' = s.resp.data.issues
     /\ stats' = s.resp.data.stats
     /\ dash_isLoading' = FALSE
     /\ reqs' = s.rest
     /\ UNCHANGED <<serverVars, staticVars, id, pageVars, mpVars, chatVars, dash_error, timers, nOps>>

loadDataRejected ==
  \E s \in Settled("getIssues") :
     /\ ~s.resp.ok
     /\ dash_error' = "Failed to load dashboard data"
     /\ dash_isLoading' = FALSE
     /\ reqs' = s.rest
     /\ UNCHANGED <<serverVars, staticVars, id, pageVars, mpVars, chatVars, issues, stats, timers, nOps>>

\* the message of both handleDeleteIssue catch branches
DeleteFailedMessage == "Failed to delete issue"

\* Dashboard handleDeleteIssue(issueId), the confirm dialog accepted:
\* issuesAPI.deleteIssue is not a function, the call throws inside the try and
\* the catch branch runs; no request is sent
Dashboard_handleDeleteIssue(i) ==
  /\ id = 0
  /\ ~dash_isLoading
  /\ i \in Range(issues)
  /\ "deleteIssue" \notin issuesAPI
  /\ dash_error' = DeleteFailedMessage
  /\ UNCHANGED <<serverVars, staticVars, id, pageVars, mpVars, chatVars, issues, stats, dash_isLoading,
                 reqs, timers, nOps>>

\* the "View" button: navigate to /issue/i; IssueDetails mounts and runs loadIssue
View(i) ==
  /\ id = 0
  /\ ~dash_isLoading
  /\ i \in Range(issues)
  /\ id' = i
  /\ PageReset
  /\ MPReset
  /\ ChatReset
  /\ DashReset
  /\ timers' = 0
  /\ reqs' = UnmountRoute(reqs) (+) One(Request("getIssue", i, "loadIssue"))
  /\ UNCHANGED <<serverVars, staticVars, nOps>>

\* "Back to Issues" (or the browser's back button)
BackToIssues ==
  /\ id # 0
  /\ GoDashboard(reqs)
  /\ UNCHANGED <<serverVars, staticVars, nOps>>

\* ------------------------------------------------------------------ IssueDetails

\* loadIssue: getIssue answered
loadIssueResolved ==
  \E s \in Settled("getIssue") :
     LET issueData == s.resp.data
         parsed == pageVariant = "part_002" /\ issueData.repair_plan # None
     IN
     /\ s.resp.ok
     /\ issue' = issueData
     /\ analysis' = IF parsed
                    THEN [repair_plan |-> JSON_parse(issueData.repair_plan),
                          mermaid_flowchart |-> None, text_flowchart |-> None]
                    ELSE analysis
     /\ isLoading' = FALSE
     /\ isAnalyzing' = IF s.req.cont = "analyzeIssue" THEN FALSE ELSE isAnalyzing
     /\ Commit(s.rest, parsed)
     /\ UNCHANGED <<serverVars, staticVars, id, error, dashVars, timers, nOps>>

\* loadIssue: getIssue failed
loadIssueRejected ==
  \E s \in Settled("getIssue") :
     /\ ~s.resp.ok
     /\ error' = "Failed to load issue details"
     /\ isLoading' = FALSE
     /\ isAnalyzing' = IF s.req.cont = "analyzeIssue" THEN FALSE ELSE isAnalyzing
     /\ UNCHANGED <<issue, analysis>>
     /\ Commit(s.rest, FALSE)
     /\ UNCHANGED <<serverVars, staticVars, id, dashVars, timers, nOps>>

\* analyzeIssue up to its await
analyzeIssue ==
  /\ AnalyzeOffered
  /\ nOps < MaxOps
  /\ nOps' = nOps + 1
  /\ isAnalyzing' = TRUE
  /\ error' = ""
  /\ UNCHANGED <<issue, analysis, isLoading>>
  /\ Commit(reqs (+) One(Request("analyzeIssue", id, "analyzeIssue")), FALSE)
  /\ UNCHANGED <<serverVars, staticVars, id, dashVars, timers>>

\* IssueDetails.js analyzeIssue after a successful await
analyzeIssueResolved_IssueDetails(s) ==
  LET result == s.resp.data IN
  /\ analysis' = result
  /\ issue' = [issue EXCEPT
                 !.status = "analyzed",
                 !.diagnosis = IF result.repair_plan # None
                                  /\ Text(result.repair_plan, "diagnosis") # None
                               THEN result.repair_plan.diagnosis ELSE @]
  /\ isAnalyzing' = FALSE
  /\ UNCHANGED <<error, isLoading>>
  /\ Commit(s.rest, TRUE)

\* part_002 analyzeIssue after a successful await: setAnalysis, then loadIssue()
analyzeIssueResolved_part_002(s) ==
  /\ analysis' = s.resp.data
  /\ isLoading' = TRUE
  /\ UNCHANGED <<issue, error, isAnalyzing>>
  /\ Commit(s.rest (+) One(Request("getIssue", id, "analyzeIssue")), TRUE)

analyzeIssueResolved ==
  \E s \in Settled("analyzeIssue") :
     /\ s.resp.ok
     /\ IF pageVariant = "IssueDetails.js"
        THEN analyzeIssueResolved_IssueDetails(s)
        ELSE analyzeIssueResolved_part_002(s)
     /\ UNCHANGED <<serverVars, staticVars, id, dashVars, timers, nOps>>

\* fault injection: the catch branch sets no message
NoMessage == ""

\* the message of analyzeIssue's catch branch
AnalyzeFailedMessage == "Failed to analyze issue. Please try again."

\* fault injection: the finally block does not clear isAnalyzing
analyzeIssueRejectedKeepsFlag ==
  \E s \in Settled("analyzeIssue") :
     /\ ~s.resp.ok
     /\ error' = AnalyzeFailedMessage
     /\ UNCHANGED <<issue, analysis, isLoading, isAnalyzing>>
     /\ Commit(s.rest, FALSE)
     /\ UNCHANGED <<serverVars, staticVars, id, dashVars, timers, nOps>>

\* analyzeIssue, the catch branch
analyzeIssueRejected ==
  \E s \in Settled("analyzeIssue") :
     /\ ~s.resp.ok
     /\ error' = AnalyzeFailedMessage
     /\ isAnalyzing' = FALSE
     /\ UNCHANGED <<issue, analysis, isLoading>>
     /\ Commit(s.rest, FALSE)
     /\ UNCHANGED <<serverVars, staticVars, id, dashVars, timers, nOps>>

\* fault injection: the button sends another status
InProgressUpdate == "in-progress"

\* the body of the update sent by "Mark as Completed"
CompletedUpdate == "completed"

\* "Mark as Completed" up to its first await
markCompleted ==
  /\ MarkCompletedOffered
  /\ nOps < MaxOps
  /\ nOps' = nOps + 1
  /\ UNCHANGED pageVars
  /\ Commit(reqs (+) One([Request("updateIssue", issue.id, "markCompleted")
                            EXCEPT !.status = CompletedUpdate]), FALSE)
  /\ UNCHANGED <<serverVars, staticVars, id, dashVars, timers>>

\* ... the update answered: loadIssue()
markCompletedResolved ==
  \E s \in Settled("updateIssue") :
     /\ s.resp.ok
     /\ isLoading' = TRUE
     /\ UNCHANGED <<issue, analysis, isAnalyzing, error>>
     /\ Commit(s.rest (+) One(Request("getIssue", id, "loadIssue")), FALSE)
     /\ UNCHANGED <<serverVars, staticVars, id, dashVars, timers, nOps>>

markCompletedRejected ==
  \E s \in Settled("updateIssue") :
     /\ ~s.resp.ok
     /\ error' = "Failed to mark as completed"
     /\ UNCHANGED <<issue, analysis, isAnalyzing, isLoading>>
     /\ Commit(s.rest, FALSE)
     /\ UNCHANGED <<serverVars, staticVars, id, dashVars, timers, nOps>>

\* IssueDetails.js handleDeleteIssue, the confirm dialog accepted:
\* issuesAPI.deleteIssue is not a function, the call throws inside the try and
\* the catch branch runs; no request is sent, navigate('/') is not reached
handleDeleteIssue ==
  /\ DeleteOffered
  /\ "deleteIssue" \notin issuesAPI
  /\ error' = DeleteFailedMessage
  /\ UNCHANGED <<issue, analysis, isAnalyzing, isLoading>>
  /\ UNCHANGED <<serverVars, staticVars, id, mpVars, chatVars, dashVars, reqs, timers, nOps>>

\* ------------------------------------------------------------------ MaintenanceProviders

\* loadProviders after its first await
loadProvidersResolved ==
  \E s \in Settled("getProviders") :
     LET providersData == s.resp.data IN
     /\ s.resp.ok
     /\ IF mpVariant = "part_003" /\ Len(providersData) = 0 /\ s.req.specialty # general
        THEN /\ reqs' = s.rest (+) One(GetProviders(general, "fallback"))
             /\ UNCHANGED providers
        ELSE /\ reqs' = s.rest
             /\ providers' = providersData
     /\ UNCHANGED <<selectedProvider, isDialogOpen, mp_isLoading, mp_error, success>>
     /\ UNCHANGED <<serverVars, staticVars, id, pageVars, chatVars, dashVars, timers, nOps>>

loadProvidersRejected ==
  \E s \in Settled("getProviders") :
     /\ ~s.resp.ok
     /\ mp_error' = "Failed to load maintenance providers"
     /\ reqs' = s.rest
     /\ UNCHANGED <<providers, selectedProvider, isDialogOpen, mp_isLoading, success>>
     /\ UNCHANGED <<serverVars, staticVars, id, pageVars, chatVars, dashVars, timers, nOps>>

openProviderDialog(provider) ==
  /\ MPRendered
  /\ provider \in Range(providers)
  /\ selectedProvider' = provider
  /\ isDialogOpen' = TRUE
  /\ UNCHANGED <<providers, mp_isLoading, mp_error, success>>
  /\ UNCHANGED <<serverVars, staticVars, id, pageVars, chatVars, dashVars, reqs, timers, nOps>>

\* the dialog's Cancel button / onClose
closeDialog ==
  /\ MPRendered
  /\ isDialogOpen
  /\ isDialogOpen' = FALSE
  /\ UNCHANGED <<providers, selectedProvider, mp_isLoading, mp_error, success>>
  /\ UNCHANGED <<serverVars, staticVars, id, pageVars, chatVars, dashVars, reqs, timers, nOps>>

\* the "Contact Provider" button can be pressed
ContactOffered == MPRendered /\ isDialogOpen /\ ~mp_isLoading

\* handleCallMaintenance up to its await
handleCallMaintenance ==
  /\ ContactOffered
  /\ selectedProvider # None /\ issue.id # 0
  /\ nOps < MaxOps
  /\ nOps' = nOps + 1
  /\ mp_isLoading' = TRUE
  /\ mp_error' = ""
  /\ success' = ""
  /\ reqs' = reqs (+) One([Request("callMaintenance", issue.id, "handleCallMaintenance")
                             EXCEPT !.provider_id = selectedProvider.id])
  /\ UNCHANGED <<providers, selectedProvider, isDialogOpen>>
  /\ UNCHANGED <<serverVars, staticVars, id, pageVars, chatVars, dashVars, timers>>

\* the component's own state after a successful call (nothing if it is gone)
CallSucceeded(s) ==
  IF s.req.mpLive
  THEN /\ success' = "Maintenance request sent"
       /\ isDialogOpen' = FALSE
       /\ mp_isLoading' = FALSE
       /\ UNCHANGED <<providers, selectedProvider, mp_error>>
  ELSE UNCHANGED mpVars

\* handleCallMaintenance after a successful await
handleCallMaintenanceResolved ==
  \E s \in Settled("callMaintenance") :
     /\ s.resp.ok
     /\ IF mpVariant = "part_003"
        THEN \* setTimeout(() => onProviderCalled(result), 1500)
             /\ CallSucceeded(s)
             /\ timers' = timers + 1
             /\ reqs' = s.rest
             /\ UNCHANGED <<pageVars, chatVars>>
        ELSE \* onProviderCalled(result) at once: the page's loadIssue()
             /\ isLoading' = TRUE
             /\ UNCHANGED <<issue, analysis, isAnalyzing, error, timers>>
             /\ Commit(s.rest (+) One(Request("getIssue", id, "loadIssue")), FALSE)
     /\ UNCHANGED <<serverVars, staticVars, id, dashVars, nOps>>

\* handleCallMaintenance, the catch branch
handleCallMaintenanceRejected ==
  \E s \in Settled("callMaintenance") :
     /\ ~s.resp.ok
     /\ IF s.req.mpLive
        THEN /\ mp_error' = "Failed to send maintenance request"
             /\ mp_isLoading' = FALSE
             /\ UNCHANGED <<providers, selectedProvider, isDialogOpen, success>>
        ELSE UNCHANGED mpVars
     /\ reqs' = s.rest
     /\ UNCHANGED <<serverVars, staticVars, id, pageVars, chatVars, dashVars, timers, nOps>>

\* part_003: the 1500 ms timer fires, onProviderCalled runs the page's loadIssue()
onProviderCalled ==
  /\ timers > 0
  /\ timers' = timers - 1
  /\ isLoading' = TRUE
  /\ UNCHANGED <<issue, analysis, isAnalyzing, error>>
  /\ Commit(reqs (+) One(Request("getIssue", id, "loadIssue")), FALSE)
  /\ UNCHANGED <<serverVars, staticVars, id, dashVars, nOps>>

\* ------------------------------------------------------------------ FlowchartDisplay

\* IssueDetails mounts FlowchartDisplay: analysis && analysis.repair_plan
FCMounted == Rendered /\ analysis # None /\ analysis.repair_plan # None

\* the chip of the plan overview
DiyLabel(repairPlan) ==
  IF IsDiy(repairPlan) THEN "DIY Repair" ELSE "Professional Required"

\* the cards FlowchartDisplay shows
DiagnosisShown == FCMounted

StepsShown == FCMounted

\* "Step {step.step || index + 1}", index counting from 0
StepNumberShown(step, index) ==
  IF "step" \in DOMAIN step /\ step.step # 0 THEN step.step ELSE index + 1

TextChartShown == FCMounted /\ analysis.text_flowchart # None

VisualCardShown ==
  /\ FCMounted
  /\ analysis.mermaid_flowchart # None
  /\ fcVariant = "FlowchartDisplay.js" => ~mermaidError

\* "Visual flowchart could not be rendered. ..."
FailureNoticeShown ==
  /\ FCMounted
  /\ fcVariant = "FlowchartDisplay.js"
  /\ analysis.mermaid_flowchart # None
  /\ mermaidError

\* what mermaid.render can do with a chart: insert the drawing, throw, or
\* report the failure later without inserting anything
RenderOutcomes == {"svg", "thrown", "silent"}

\* FlowchartDisplay.js, the effect on [mermaidChart]: mermaid is switched off
useEffect_FlowchartDisplay ==
  /\ fcVariant = "FlowchartDisplay.js"
  /\ FCMounted
  /\ rendering = "none"
  /\ mermaidError' = TRUE
  /\ rendering' = "disabled"
  /\ UNCHANGED <<fcVariant, registry, pageVariant, mpVariant>>
  /\ UNCHANGED <<serverVars, id, pageVars, mpVars, chatVars, dashVars, reqs, timers, nOps>>

\* part_000, the effect on [mermaidChart]
useEffect_part_000 ==
  /\ fcVariant = "part_000"
  /\ FCMounted
  /\ rendering = "none"
  /\ IF VisualCardShown
     THEN rendering' \in RenderOutcomes
     ELSE rendering' = "skipped"
  /\ UNCHANGED <<fcVariant, mermaidError, registry, pageVariant, mpVariant>>
  /\ UNCHANGED <<serverVars, id, pageVars, mpVars, chatVars, dashVars, reqs, timers, nOps>>

\* ------------------------------------------------------------------ analysis section
\* The analysis section of the page on its own: IssueDetails has just received
\* an analysis and mounted FlowchartDisplay, MaintenanceProviders and
\* ChatInterface with it.

\* what the analysis of an issue can consist of
AnalysisInputs ==
  {[repair_plan |-> p, mermaid_flowchart |-> m, text_flowchart |-> t] :
     p \in PlanInputs \cup StepPlans,
     m \in {None, <<"g","r","a","p","h">>},
     t \in {None, <<"s","t","e","p","s">>}}

ViewInit ==
  /\ registry \in Registries
  /\ pageVariant = "IssueDetails.js"
  /\ mpVariant \in {"part_003", "MaintenanceProviders.js"}
  /\ fcVariant \in {"FlowchartDisplay.js", "part_000"}
  /\ analysis \in AnalysisInputs
  /\ store = [i \in Issues |-> IssueRecord("analyzed", analysis.repair_plan)]
  /\ audit = <<>>
  /\ trace = [i \in Issues |-> <<"new", "analyzed">>]
  /\ chatCalls = <<>>
  /\ id = 1
  /\ issue = IssueOut(1)
  /\ isAnalyzing = FALSE
  /\ error = ""
  /\ isLoading = FALSE
  /\ providers = None
  /\ selectedProvider = None
  /\ isDialogOpen = FALSE
  /\ mp_isLoading = FALSE
  /\ mp_error = ""
  /\ success = ""
  /\ messages = <<Welcome>>
  /\ currentMessage = ""
  /\ chat_isLoading = FALSE
  /\ mermaidError = FALSE
  /\ rendering = "none"
  /\ issues = None
  /\ stats = None
  /\ dash_isLoading = TRUE
  /\ dash_error = ""
  /\ reqs = One(LoadProviders(analysis.repair_plan))
  /\ timers = 0
  /\ nOps = 1

ViewNext ==
  \/ loadProvidersResolved
  \/ loadProvidersRejected
  \/ \E k \in DOMAIN registry : openProviderDialog(registry[k])
  \/ useEffect_FlowchartDisplay
  \/ useEffect_part_000

ViewSpec == ViewInit /\ [][ViewNext]_vars

\* ------------------------------------------------------------------ ChatInterface

\* ChatInterface is rendered with the analysis section
ChatRendered == MPMounted

\* typing a question, or pressing one of the quick questions
setCurrentMessage ==
  /\ ChatRendered
  /\ ~chat_isLoading
  /\ currentMessage = ""
  /\ currentMessage' = "Can I skip any steps?"
  /\ UNCHANGED <<messages, chat_isLoading>>
  /\ UNCHANGED <<serverVars, staticVars, id, pageVars, mpVars, dashVars, reqs, timers, nOps>>

\* sendMessage up to its await; the message is numbered by the order of sending
sendMessage ==
  /\ ChatRendered
  /\ ~(currentMessage = "" \/ chat_isLoading)
  /\ nOps < MaxOps
  /\ nOps' = nOps + 1
  /\ messages' = Append(messages, [type |-> "user", message |-> currentMessage,
                                     n |-> nOps + 1])
  /\ currentMessage' = ""
  /\ chat_isLoading' = TRUE
  /\ reqs' = reqs (+) One([Request("sendMessage", issue.id, "sendMessage")
                             EXCEPT !.n = nOps + 1])
  /\ UNCHANGED <<serverVars, staticVars, id, pageVars, mpVars, dashVars, timers>>

\* fault injection: the context is sent without the diagnosis
getChatContextNoDiagnosis(i) == [description |-> "description", diagnosis |-> None]

\* section 4.4 getChatContext: the description and the diagnosis of the issue
getChatContext(i) ==
  [description |-> "description", diagnosis |-> store[i].diagnosis]

\* what the chat service can do with a call
ChatOutcomes == {Ok([response |-> "reply"]), Err("ChatUnavailable")}

\* POST /api/chat: the chat service is called with the message and the context
ServeChat ==
  \E r \in Pending("sendMessage") : \E resp \in ChatOutcomes :
     /\ chatCalls' = Append(chatCalls, [issue_id |-> r.issueId, n |-> r.n,
                                        context |-> getChatContext(r.issueId)])
     /\ reqs' = Answered(r, resp)
     /\ UNCHANGED <<store, audit, trace, clientVars>>

\* sendMessage after a successful await (nothing if the component is gone)
sendMessageResolved ==
  \E s \in Settled("sendMessage") :
     /\ s.resp.ok
     /\ IF s.req.mpLive
        THEN /\ messages' = Append(messages, [type |-> "bot",
                                               message |-> s.resp.data.response,
                                               n |-> s.req.n])
             /\ chat_isLoading' = FALSE
             /\ UNCHANGED currentMessage
        ELSE UNCHANGED chatVars
     /\ reqs' = s.rest
     /\ UNCHANGED <<serverVars, staticVars, id, pageVars, mpVars, dashVars, timers, nOps>>

\* the reply of sendMessage's catch branch
ChatErrorMessage == "Sorry, I encountered an error. Please try again."

\* sendMessage, the catch branch
sendMessageRejected ==
  \E s \in Settled("sendMessage") :
     /\ ~s.resp.ok
     /\ IF s.req.mpLive
        THEN /\ messages' = Append(messages, [type |-> "bot",
                                               message |-> ChatErrorMessage,
                                               n |-> s.req.n])
             /\ chat_isLoading' = FALSE
             /\ UNCHANGED currentMessage
        ELSE UNCHANGED chatVars
     /\ reqs' = s.rest
     /\ UNCHANGED <<serverVars, staticVars, id, pageVars, mpVars, dashVars, timers, nOps>>

\* The conversation about an analysed issue: the page has just shown the
\* analysis; the user chats, re-analyses and marks the issue completed.
ChatInit ==
  /\ registry = Providers
  /\ pageVariant \in {"IssueDetails.js", "part_002"}
  /\ mpVariant = "part_003"
  /\ \E plan \in Plans :
        /\ store = [i \in Issues |-> IssueRecord("analyzed", plan)]
        /\ analysis = [repair_plan |-> plan,
                       mermaid_flowchart |-> <<"g","r","a","p","h">>,
                       text_flowchart |-> <<"s","t","e","p","s">>]
        /\ providers = IF plan = PlanOutlet THEN <<Providers[1]>> ELSE <<Providers[2]>>
  /\ audit = <<>>
  /\ trace = [i \in Issues |-> <<"new", "analyzed">>]
  /\ chatCalls = <<>>
  /\ id = 1
  /\ issue = IssueOut(1)
  /\ isAnalyzing = FALSE
  /\ error = ""
  /\ isLoading = FALSE
  /\ selectedProvider = None
  /\ isDialogOpen = FALSE
  /\ mp_isLoading = FALSE
  /\ mp_error = ""
  /\ success = ""
  /\ messages = <<Welcome>>
  /\ currentMessage = ""
  /\ chat_isLoading = FALSE
  /\ fcVariant = "FlowchartDisplay.js"
  /\ mermaidError = FALSE
  /\ rendering = "none"
  /\ issues = None
  /\ stats = None
  /\ dash_isLoading = TRUE
  /\ dash_error = ""
  /\ reqs = EmptyBag
  /\ timers = 0
  /\ nOps = 0

ChatNext ==
  \/ setCurrentMessage
  \/ sendMessage
  \/ ServeChat
  \/ sendMessageResolved
  \/ sendMessageRejected
  \/ analyzeIssue
  \/ ServeAnalyze
  \/ analyzeIssueResolved
  \/ analyzeIssueRejected
  \/ markCompleted
  \/ ServeUpdate
  \/ markCompletedResolved
  \/ markCompletedRejected
  \/ ServeGetIssue
  \/ loadIssueResolved
  \/ loadIssueRejected
  \/ loadProvidersResolved
  \/ loadProvidersRejected

ChatSpec == ChatInit /\ [][ChatNext]_vars

\* ------------------------------------------------------------------ dashboard statistics

\* the statuses of section 3
Statuses == <<"new", "analyzed", "in-progress", "maintenance_called", "completed">>

\* the list of n copies of x
RECURSIVE Repeat(_, _)
Repeat(x, n) == IF n = 0 THEN <<>> ELSE <<x>> \o Repeat(x, n - 1)

\* the issues of a collection holding count[k] issues of status Statuses[k]
RECURSIVE CollectionOf(_, _)
CollectionOf(count, k) ==
  IF k > Len(Statuses) THEN <<>>
  ELSE Repeat(IssueRecord(Statuses[k], IF Statuses[k] = "new" THEN None ELSE PlanLeak),
              count[k])
       \o CollectionOf(count, k + 1)

RECURSIVE Sum(_, _)
Sum(count, k) == IF k = 0 THEN 0 ELSE count[k] + Sum(count, k - 1)

\* the issue collections of up to MaxIssues issues, one for every way of
\* dividing them among the statuses (the aggregator only counts, so the
\* order of the issues is immaterial)
Collections ==
  {CollectionOf(count, 1) :
     count \in {c \in [DOMAIN Statuses -> 0..MaxIssues] :
                  Sum(c, Len(Statuses)) <= MaxIssues}}

\* Number.prototype.toFixed(1) of a non-negative number, in tenths
toFixed1(q) == (q.num * 20 + q.den) \div (2 * q.den)

\* the Completion Rate card
CompletionRateShown == id = 0 /\ stats # None

\* The dashboard opened on a stored collection of issues.
DashInit ==
  /\ registry = Providers
  /\ store \in Collections
  /\ audit = <<>>
  /\ trace = [i \in DOMAIN store |-> <<store[i].status>>]
  /\ chatCalls = <<>>
  /\ pageVariant = "IssueDetails.js"
  /\ mpVariant = "part_003"
  /\ id = 0
  /\ issue = None
  /\ analysis = None
  /\ isAnalyzing = FALSE
  /\ error = ""
  /\ isLoading = TRUE
  /\ providers = <<>>
  /\ selectedProvider = None
  /\ isDialogOpen = FALSE
  /\ mp_isLoading = FALSE
  /\ mp_error = ""
  /\ success = ""
  /\ messages = None
  /\ currentMessage = ""
  /\ chat_isLoading = FALSE
  /\ fcVariant = "FlowchartDisplay.js"
  /\ mermaidError = FALSE
  /\ rendering = "none"
  /\ issues = None
  /\ stats = None
  /\ dash_isLoading = TRUE
  /\ dash_error = ""
  /\ reqs = One(Request("getIssues", 0, "loadData"))
  /\ timers = 0
  /\ nOps = 0

DashNext ==
  \/ ServeGetIssues
  \/ loadDataResolved
  \/ loadDataRejected

DashSpec == DashInit /\ [][DashNext]_vars

\* ------------------------------------------------------------------ specification

Init ==
  /\ registry = Providers
  /\ store \in [Issues -> InitialIssues]
  /\ audit = <<>>
  /\ trace = [i \in Issues |-> <<store[i].status>>]
  /\ chatCalls = <<>>
  /\ pageVariant \in {"IssueDetails.js", "part_002"}
  /\ mpVariant \in {"part_003", "MaintenanceProviders.js"}
  /\ id = 0
  /\ issue = None
  /\ analysis = None
  /\ isAnalyzing = FALSE
  /\ error = ""
  /\ isLoading = TRUE
  /\ providers = None
  /\ selectedProvider = None
  /\ isDialogOpen = FALSE
  /\ mp_isLoading = FALSE
  /\ mp_error = ""
  /\ success = ""
  /\ messages = None
  /\ currentMessage = ""
  /\ chat_isLoading = FALSE
  /\ fcVariant = "FlowchartDisplay.js"
  /\ mermaidError = FALSE
  /\ rendering = "none"
  /\ issues = None
  /\ stats = None
  /\ dash_isLoading = TRUE
  /\ dash_error = ""
  /\ reqs = One(Request("getIssues", 0, "loadData"))
  /\ timers = 0
  /\ nOps = 0

Next ==
  \/ ServeGetIssue
  \/ ServeGetIssues
  \/ ServeAnalyze
  \/ ServeUpdate
  \/ ServeCallMaintenance
  \/ loadDataResolved
  \/ loadDataRejected
  \/ \E i \in DOMAIN store : Dashboard_handleDeleteIssue(i)
  \/ \E i \in DOMAIN store : View(i)
  \/ BackToIssues
  \/ loadIssueResolved
  \/ loadIssueRejected
  \/ analyzeIssue
  \/ analyzeIssueResolved
  \/ analyzeIssueRejected
  \/ markCompleted
  \/ markCompletedResolved
  \/ markCompletedRejected
  \/ handleDeleteIssue
  \/ loadProvidersResolved
  \/ loadProvidersRejected
  \/ \E k \in DOMAIN registry : openProviderDialog(registry[k])
  \/ closeDialog
  \/ handleCallMaintenance
  \/ handleCallMaintenanceResolved
  \/ handleCallMaintenanceRejected
  \/ onProviderCalled

Spec == Init /\ [][Next]_vars

\* ------------------------------------------------------------------ two issues

\* the ids of a store of two issues
TwoIssues == {1, 2}

\* The same application on a store of two issues.
TwoInit ==
  /\ registry = Providers
  /\ store \in [TwoIssues -> InitialIssues]
  /\ audit = <<>>
  /\ trace = [i \in TwoIssues |-> <<store[i].status>>]
  /\ chatCalls = <<>>
  /\ pageVariant \in {"IssueDetails.js", "part_002"}
  /\ mpVariant = "part_003"
  /\ id = 0
  /\ issue = None
  /\ analysis = None
  /\ isAnalyzing = FALSE
  /\ error = ""
  /\ isLoading = TRUE
  /\ providers = None
  /\ selectedProvider = None
  /\ isDialogOpen = FALSE
  /\ mp_isLoading = FALSE
  /\ mp_error = ""
  /\ success = ""
  /\ messages = None
  /\ currentMessage = ""
  /\ chat_isLoading = FALSE
  /\ fcVariant = "FlowchartDisplay.js"
  /\ mermaidError = FALSE
  /\ rendering = "none"
  /\ issues = None
  /\ stats = None
  /\ dash_isLoading = TRUE
  /\ dash_error = ""
  /\ reqs = One(Request("getIssues", 0, "loadData"))
  /\ timers = 0
  /\ nOps = 0

TwoSpec == TwoInit /\ [][Next]_vars

\* ------------------------------------------------------------------ properties

\* the audit events of issue i
AuditFor(i) == {k \in DOMAIN audit : audit[k].issue_id = i}

\* provider ids a request can carry: none, the registry's rows, an unknown one
ProviderIds == {0} \cup {Providers[k].id : k \in DOMAIN Providers} \cup {Len(Providers) + 1}

\* the requests of a kind for issue i that the mounted page is waiting for
Awaited(kind, i) ==
  {r \in BagToSet(reqs) : r.kind = kind /\ r.issueId = i /\ r.live}

\* how many analyze and call-maintenance requests for issue i the mounted page
\* is waiting for
InFlight(i) ==
  LET S == Awaited("analyzeIssue", i) \cup Awaited("callMaintenance", i)
  IN SumCounts(reqs, S)

\* C1: for an issue whose stored plan is DIY, call-maintenance fails with
\* NotEligibleForProfessional for every provider id (none, available,
\* unavailable, unknown), and leaves the store and the audit log as they were.
C1_DiyNeverRouted ==
  \A i \in Issues :
     (store[i] # None /\ StoredPlan(i) # None /\ StoredPlan(i).is_diy) =>
        \A provider_id \in ProviderIds :
           LET res == CallMaintenanceEndpoint(i, provider_id) IN
           /\ res.resp = Err("NotEligibleForProfessional")
           /\ res.store = store
           /\ res.audit = audit

\* C1 happens: a call-maintenance request for a DIY issue has been refused
C1_Witness ==
  \E r \in BagToSet(reqs) :
     /\ r.kind = "callMaintenance" /\ r.stage = "replied"
     /\ r.resp = Err("NotEligibleForProfessional")
     /\ StoredPlan(r.issueId) # None /\ StoredPlan(r.issueId).is_diy
     /\ store[r.issueId].status = "analyzed"
     /\ audit = <<>>

\* C2: every audit event was created while the plan of its issue was a
\* professional one (is_diy false at the time of contact), whatever analyses
\* ran before, during or after the contact.
C2_AuditOnlyProfessional ==
  \A k \in DOMAIN audit : ~audit[k].is_diy

\* C2 happens: a provider was contacted and a later re-analysis made the plan DIY
C2_Witness ==
  \E k \in DOMAIN audit :
     /\ store[audit[k].issue_id] # None
     /\ StoredPlan(audit[k].issue_id).is_diy

\* C3: for each issue the page waits for at most one analyze or
\* call-maintenance request at a time.
C3_AtMostOneInFlight ==
  \A i \in Issues : InFlight(i) <= 1

\* the order of the statuses along the lifecycle
Rank(status) ==
  CASE status = "new" -> 0
    [] status = "analyzed" -> 1
    [] status \in {"in-progress", "maintenance_called"} -> 2
    [] status = "completed" -> 3

\* the status stays or moves forward
Forward(from, to) == from = to \/ Rank(from) < Rank(to)

\* C4: the status never regresses: every change of a stored status moves
\* forward along the lifecycle, and a successful (re-)analysis applied by the
\* page leaves a displayed status past "new" as it is (completed stays
\* completed).
C4_StatusNeverRegresses ==
  [][ /\ \A i \in Issues :
           (store[i] # None /\ store'[i] # None) =>
              Forward(store[i].status, store'[i].status)
      /\ analyzeIssueResolved => Forward(issue.status, issue'.status)
    ]_vars

StoredTogether(i) ==
  store[i] # None =>
     store[i].diagnosis = (IF StoredPlan(i) = None THEN None ELSE StoredPlan(i).diagnosis)

\* C6: an analysis is applied atomically: the stored diagnosis always belongs
\* to the stored plan, and a page that displays the plan of an analysis also
\* displays the status and diagnosis that analysis produced (never status
\* "new" or another diagnosis next to the plan).
C6_AnalysisAtomic ==
  /\ \A i \in Issues : StoredTogether(i)
  /\ (Rendered /\ analysis # None /\ analysis.repair_plan # None) =>
        /\ issue.status # "new"
        /\ issue.diagnosis = analysis.repair_plan.diagnosis

\* status and plan of a stored issue agree
PlanMatchesStatus(i) ==
  store[i] # None =>
     /\ store[i].status = "new" => StoredPlan(i) = None
     /\ store[i].status \in {"analyzed", "maintenance_called"} => StoredPlan(i) # None
     /\ StoredPlan(i) # None =>
          store[i].status \in {"analyzed", "in-progress", "maintenance_called", "completed"}

\* C7: a stored issue with status new has no plan, one with status analyzed or
\* maintenance_called has one, a plan only goes with a status past new; a
\* plan appears only in the step of a successful analysis and stays until the
\* issue is deleted.  The displayed issue agrees: status new is shown without
\* a plan, status analyzed or maintenance_called with one.
C7_PlanIffAnalysed ==
  [][ /\ \A i \in Issues :
           /\ PlanMatchesStatus(i)
           /\ PlanMatchesStatus(i)'
           /\ (store[i] # None /\ store'[i] # None) =>
                /\ StoredPlan(i) # None => StoredPlan(i)' # None
                /\ (StoredPlan(i) = None /\ StoredPlan(i)' # None) => ServeAnalyze
      /\ Rendered' =>
           /\ issue'.status = "new" => issue'.repair_plan = None
           /\ issue'.status \in {"analyzed", "maintenance_called"} =>
                (issue'.repair_plan # None \/ analysis' # None)
    ]_vars

\* C7 happens: an issue completed without analysis has no plan, is analysed
\* afterwards and then has one
C7_Witness ==
  /\ trace[1] = <<"new", "completed">>
  /\ StoredPlan(1) # None
  /\ Rendered /\ analysis # None

IsPrefix(p, q) == Len(p) <= Len(q) /\ SubSeq(q, 1, Len(p)) = p

C10_DeleteEnabledAndFinal ==
  [][ /\ \A i \in Issues : store[i] = None => store'[i] = None
      /\ handleDeleteIssue =>
           \E r \in BagToSet(reqs') : r.kind = "deleteIssue" /\ r.issueId = id
      /\ \A i \in Issues :
           Dashboard_handleDeleteIssue(i) =>
              \E r \in BagToSet(reqs') : r.kind = "deleteIssue" /\ r.issueId = i
    ]_vars

\* ------------------------------------------------------------------ provider lookup

\* the registry queries of the mounted provider component that are in flight
Lookups == {r \in BagToSet(reqs) : r.kind = "getProviders"}

\* the plan the analysis section was handed has the property
HasProperty(field) == field \in DOMAIN analysis.repair_plan

\* C11: the specialty matcher is total: whatever the plan (hint present or
\* absent, diagnosis present, empty or absent), the category a lookup starts with
\* is one of plumbing, electrical, appliances, general, never null.
C11_MatcherTotal ==
  \A r \in Lookups : r.cont = "first" => r.specialty \in Categories

\* the category each provider hint of PlanInputs must give, worked out by hand
\* from section 4.2, step 1
C12_Expected(hint) ==
  CASE hint = hint_Plumber -> plumbing
    [] hint = hint_Electrician -> electrical
    [] hint = hint_Appliance -> appliances
    [] hint = hint_General -> general
    [] hint = hint_Handyman -> general
    [] hint = hint_ElectricPlumb -> plumbing

\* C12: with a provider hint, the matcher of part_003 decides on the lower-cased
\* hint alone, plumb before electric before appliance, else general; the
\* diagnosis is not consulted, whatever keywords it contains.
C12_HintDecides ==
  (mpVariant = "part_003" /\ MPMounted /\ HasProperty("recommended_provider")) =>
     /\ MatchSpecialty(analysis.repair_plan)
           = C12_Expected(analysis.repair_plan.recommended_provider)
     /\ \A r \in Lookups :
           r.cont = "first" =>
              r.specialty = C12_Expected(analysis.repair_plan.recommended_provider)

\* C12 happens: an unrecognised hint with a plumbing diagnosis was looked up as
\* general, and the (unavailable) generalist of the registry was listed
C12_Witness ==
  /\ mpVariant = "part_003"
  /\ MPMounted
  /\ HasProperty("recommended_provider") /\ HasProperty("diagnosis")
  /\ analysis.repair_plan.recommended_provider = hint_Handyman
  /\ analysis.repair_plan.diagnosis = diag_water
  /\ registry = Providers
  /\ Lookups = {}
  /\ providers = <<Providers[2]>>

\* the category each diagnosis of PlanInputs must give when there is no hint,
\* worked out by hand from section 4.2, steps 2 and 3
C13_Expected(diagnosis) ==
  CASE diagnosis = None -> general
    [] diagnosis = diag_water -> plumbing
    [] diagnosis = diag_pipe_outlet -> plumbing
    [] diagnosis = diag_outlet -> electrical
    [] diagnosis = diag_washer -> appliances
    [] diagnosis = diag_paint -> general

\* C13: without a provider hint, the matcher of part_003 gives the first
\* family, in the order plumbing, electrical, appliances, with a keyword in the
\* lower-cased diagnosis, and general when there is none (or no diagnosis).
C13_DiagnosisDecides ==
  (mpVariant = "part_003" /\ MPMounted /\ ~HasProperty("recommended_provider")) =>
     /\ MatchSpecialty(analysis.repair_plan)
           = C13_Expected(Text(analysis.repair_plan, "diagnosis"))
     /\ \A r \in Lookups :
           r.cont = "first" =>
              r.specialty = C13_Expected(Text(analysis.repair_plan, "diagnosis"))

\* C13 happens: "leaking pipe and electrical outlet", which hits two families,
\* was looked up as plumbing and the plumber of the registry was listed
C13_Witness ==
  /\ mpVariant = "part_003"
  /\ MPMounted
  /\ ~HasProperty("recommended_provider") /\ HasProperty("diagnosis")
  /\ analysis.repair_plan.diagnosis = diag_pipe_outlet
  /\ Lookups = {}
  /\ providers # None /\ Len(providers) = 1
  /\ providers[1].specialty = plumbing

\* C14: a lookup queries the registry with the matched category and queries
\* it again, with general, exactly when the first answer is empty and the
\* category is not general; the second answer ends the lookup, and an empty
\* one gives an empty provider list and no error.
C14_TwoStepFallback ==
  [][loadProvidersResolved =>
       \A r \in Lookups :
          IF r.cont = "first"
          THEN /\ (Lookups' # {}) <=> (r.resp.data = <<>> /\ r.specialty # general)
               /\ \A q \in Lookups' : q.cont = "fallback" /\ q.specialty = general
          ELSE /\ Lookups' = {}
               /\ providers' = r.resp.data
               /\ mp_error' = ""
    ]_vars

\* C15: on an issue with a professional plan, call-maintenance succeeds only
\* for a provider that is in the registry and available; for any other
\* provider id it fails with ProviderUnavailable and leaves the issue and the
\* audit log as they were.
C15_UnavailableProviderRefused ==
  \A i \in Issues : \A provider_id \in ProviderIds :
     (store[i] # None /\ StoredPlan(i) # None /\ ~StoredPlan(i).is_diy) =>
        LET res == CallMaintenanceEndpoint(i, provider_id)
            row == {k \in DOMAIN registry : registry[k].id = provider_id}
            listed == \E k \in row : registry[k].availability = "available"
        IN /\ res.resp.ok => listed
           /\ ~listed => /\ res.resp = Err("ProviderUnavailable")
                         /\ res.store = store
                         /\ res.audit = audit

\* C15 happens: the unavailable generalist was contacted for an analysed issue
\* with a professional plan, the answer is ProviderUnavailable, the issue is
\* still analysed and nothing was logged
C15_Witness ==
  /\ \E r \in BagToSet(reqs) :
        /\ r.kind = "callMaintenance" /\ r.stage = "replied"
        /\ r.provider_id = 2
        /\ r.resp = Err("ProviderUnavailable")
  /\ store[1].status = "analyzed"
  /\ StoredPlan(1) = PlanOutlet
  /\ audit = <<>>

\* C16: a plan without is_diy is treated as a DIY plan wherever it is
\* interpreted: the overview labels it "DIY Repair" and the provider component
\* renders nothing for it.
C16_AbsentIsDiyMeansDiy ==
  (FCMounted /\ ~HasProperty("is_diy")) =>
     /\ DiyLabel(analysis.repair_plan) = "DIY Repair"
     /\ ~MPRendered

\* the diagram of the analysis could not be drawn
RenderFailed ==
  analysis # None /\ analysis.mermaid_flowchart # None
  /\ rendering \in {"disabled", "thrown", "silent"}

\* the analyze requests in B
Analyses(B) == SumCounts(B, {r \in DOMAIN B : r.kind = "analyzeIssue"})

\* C17: an invocation of analyze sends exactly one analyze request and no
\* other step sends one (nothing retries); a failed analyze clears isAnalyzing
\* and, on a rendered page whose issue is new or has an analysis, leaves the
\* analyze button enabled for a manual retry.
C17_OneRequestNoRetry ==
  [][ /\ analyzeIssue => Analyses(reqs') = Analyses(reqs) + 1
      /\ Analyses(reqs') > Analyses(reqs) => analyzeIssue
      /\ analyzeIssueRejected =>
           /\ ~isAnalyzing'
           /\ (Rendered' /\ (issue'.status = "new" \/ analysis' # None)) =>
                 AnalyzeOffered'
    ]_vars

\* C17 happens: the first analysis of a new issue has failed, nothing was
\* re-sent, and the page offers the analyze button again
C17_Witness ==
  /\ nOps = 1
  /\ error = AnalyzeFailedMessage
  /\ ~isAnalyzing
  /\ Rendered /\ issue.status = "new" /\ analysis = None
  /\ AnalyzeOffered
  /\ Analyses(reqs) = 0
  /\ store[1].status = "new"

Chats(B) == SumCounts(B, {r \in DOMAIN B : r.kind = "sendMessage" /\ r.live})

\* the messages of the list m are in send order, each reply after the user
\* message it answers
ChatInOrder(m) ==
  \A k \in DOMAIN m :
     /\ (m[k].type = "bot" /\ m[k].n # 0) =>
           \E j \in 1..(k - 1) : m[j].type = "user" /\ m[j].n = m[k].n
     /\ m[k].type = "user" =>
           \A j \in 1..(k - 1) : m[j].n < m[k].n

\* C19: the displayed messages are in send order with each reply after the
\* user message that caused it, at most one chat request is in flight, and a
\* failed send leaves the in-flight flag cleared (with the error reply as the
\* last message of the conversation that sent it).
C19_ChatOrdered ==
  [][ /\ messages' # None => ChatInOrder(messages')
      /\ Chats(reqs') <= 1
      /\ sendMessageRejected =>
           /\ ~chat_isLoading'
           /\ \A s \in Settled("sendMessage") :
                 s.req.mpLive =>
                    messages' = Append(messages, [type |-> "bot",
                                                   message |-> ChatErrorMessage,
                                                   n |-> s.req.n])
    ]_vars

\* C20: when the diagram cannot be rendered the rest of the page stays: the
\* diagnosis, the step-by-step instructions and the text chart (when the
\* analysis has one) are displayed; the visual-flowchart card and the failure
\* notice are never shown together.
C20_RenderFailureDegrades ==
  /\ RenderFailed =>
        /\ DiagnosisShown
        /\ StepsShown
        /\ analysis.text_flowchart # None => TextChartShown
  /\ ~(VisualCardShown /\ FailureNoticeShown)

\* ------------------------------------------------------------------ dashboard

\* the stored issues whose status is completed
CompletedStored == {i \in DOMAIN store : store[i].status = "completed"}

\* C21: the completion rate shown for an issue collection is
\* completedIssues / totalIssues * 100, completedIssues being the number of
\* issues whose status is completed; it is 0 for an empty collection, and 30
\* (shown as 30.0) for 10 issues of which 3 are completed.
C21_CompletionRate ==
  CompletionRateShown =>
     LET total == Len(store)
         completed == Cardinality(CompletedStored)
         rate == stats.completion_rate
     IN /\ stats.total_issues = total
        /\ stats.completed_issues = completed
        /\ rate.den > 0
        /\ total = 0 => rate.num = 0
        /\ total > 0 => rate.num * total = completed * 100 * rate.den
        /\ (total = 10 /\ completed = 3) =>
              /\ rate.num = 30 * rate.den
              /\ toFixed1(rate) = 300

\* C21 happens: the dashboard shows the rate of 10 issues, 3 of them completed
C21_Witness ==
  /\ CompletionRateShown
  /\ Len(store) = 10
  /\ Cardinality(CompletedStored) = 3
  /\ toFixed1(stats.completion_rate) = 300

\* ------------------------------------------------------------------ independence

\* the requests made for issue i, each with the number of its copies in B
RequestsOf(B, i) ==
  [r \in {q \in DOMAIN B : q.issueId = i} |-> B[r]]

\* the step sends, serves, settles or abandons a request made for issue i
ActsOn(i) == RequestsOf(reqs', i) # RequestsOf(reqs, i)

\* C22: a step of an operation on issue A (a request for A is sent, served or
\* settled, however late) leaves the stored status, diagnosis and repair
\* plan, the history and the contact records of every other issue B
\* unchanged, and the issue and the analysis displayed on the page of B too.
C22_IssuesIndependent ==
  [][ \A A, B \in DOMAIN store :
        (A # B /\ ActsOn(A)) =>
           /\ store'[B] = store[B]
           /\ trace'[B] = trace[B]
           /\ AuditFor(B)' = AuditFor(B)
           /\ (id = B /\ id' = B) => (issue' = issue /\ analysis' = analysis)
    ]_vars

\* C22 happens: the page of issue 2 shows its analysis while a request
\* started on the page of issue 1 has been left with the server, which
\* has changed issue 1 before
C22_Witness ==
  /\ DOMAIN store = TwoIssues
  /\ id = 2
  /\ Rendered
  /\ analysis # None
  /\ Len(trace[1]) > 1
  /\ \E r \in BagToSet(reqs) :
        r.issueId = 1 /\ ~r.live /\ r.stage = "sent" /\ r.kind \in {"analyzeIssue", "updateIssue"}

\* ------------------------------------------------------------------ registry filter

\* C23: every registry query made for a repair plan, first or fallback,
\* carries a filter, and the filter is one of the four categories: never the
\* raw provider hint, never no filter.
C23_FilterIsCategory ==
  \A r \in Lookups :
     /\ r.specialty # None
     /\ r.specialty \in Categories

\* ------------------------------------------------------------------ contact

Renderings(a) == <<a.mermaid_flowchart, a.text_flowchart>>

\* C25: while the page of an issue stays open, the analysis it holds keeps
\* its plan and its two diagram renderings in every step but the success of
\* an analyze request; a reload of the issue (after the analysis, a contact
\* or Mark as Completed) leaves them unchanged.
C25_RenderingsKept ==
  [][ (id # 0 /\ id' = id /\ analysis # None /\ ~analyzeIssueResolved) =>
         /\ analysis' # None
         /\ analysis'.repair_plan = analysis.repair_plan
         /\ Renderings(analysis') = Renderings(analysis)
    ]_vars

\* ------------------------------------------------------------------ steps

\* C26: the number shown for the step at 0-based position i of the displayed
\* plan is the step's own number when the step has one, and i + 1 when it has
\* none.
C26_StepNumbers ==
  StepsShown =>
     LET steps == analysis.repair_plan.steps IN
     \A k \in DOMAIN steps :
        StepNumberShown(steps[k], k - 1) =
           IF "step" \in DOMAIN steps[k] THEN steps[k].step ELSE (k - 1) + 1

\* ------------------------------------------------------------------ lookup races

\* what the lookup made for a plan ends with when its queries are answered
LookupResult(repairPlan) ==
  LET first == QueryProviders(Specialty(repairPlan)) IN
  IF mpVariant = "part_003" /\ first = <<>> /\ Specialty(repairPlan) # general
  THEN QueryProviders(general)
  ELSE first

\* C27: when no provider lookup is in flight any more and none has failed,
\* the provider list held for the displayed repair plan is the result of the
\* lookup made for that plan, whatever the order in which the answers of
\* earlier lookups arrived.
C27_LatestLookupWins ==
  (MPMounted /\ analysis.repair_plan # None /\ Lookups = {} /\ mp_error = "") =>
     providers = LookupResult(analysis.repair_plan)

\* ------------------------------------------------------------------ diagnosis

\* C28: whenever the page shows an issue together with a repair plan, the
\* diagnosis of the issue is the diagnosis of that plan: it never comes from
\* an older analysis than the plan does.
C28_DiagnosisOfDisplayedPlan ==
  (Rendered /\ analysis # None /\ analysis.repair_plan # None) =>
     issue.diagnosis = Text(analysis.repair_plan, "diagnosis")

\* ------------------------------------------------------------------ conversation

\* C29: while the page of an issue stays open, every step (a re-analysis,
\* Mark as Completed and the reload it makes, a chat reply) keeps the
\* displayed messages and only appends to them, and the list stays in send
\* order with each reply after the user message that caused it.
C29_MessagesAppendOnly ==
  [][ (id # 0 /\ id' = id /\ messages # None) =>
         /\ messages' # None
         /\ IsPrefix(messages, messages')
         /\ ChatInOrder(messages')
    ]_vars

\* ------------------------------------------------------------------ analyze offered

\* C30: whatever the status of the issue displayed by IssueDetails.js, when
\* the page holds no analysis and no analyze request is in flight, a button
\* bound to analyzeIssue is shown and enabled.
C30_AnalyzeAlwaysOffered ==
  (/\ pageVariant = "IssueDetails.js"
   /\ Rendered
   /\ issue.status \in Range(Statuses)
   /\ analysis = None
   /\ ~isAnalyzing
   /\ Analyses(reqs) = 0) => AnalyzeOffered

====
